---- MODULE Spec2Model ----
(***************************************************************************)
(* A model of the two linked lists of src/data_structures:                 *)
(*   LinkedList  (linked_list.rs,  singly linked, size : i64)              *)
(*   LinkedList2 (linked_list2.rs, doubly linked, size : usize)            *)
(* A list is a record [head, tail, size, nodes]; nodes maps a node id to   *)
(* its record [content, next, prev].  Node id 0 and handle 0 stand for     *)
(* None.  A second list the caller holds (a clone, or the list a clone was *)
(* taken of) is a record [held, head, tail, size, calls] whose nodes live   *)
(* in the same heap `nodes`; calls counts the calls made since the clone.  A content handle (Rc<RefCell<T>>) is an integer: two handles are *)
(* ptr::eq exactly when the integers are equal; Value(h) is what the       *)
(* handle dereferences to.                                                 *)
(***************************************************************************)
EXTENDS Integers, Sequences, FiniteSets

\* ---------------------------------------------------------------- bounds
MaxNodes == 4
MaxHandles == 2
MaxSize == 4
NumValues == 1
MaxWrap == 2
MaxAfterClone == 2
MaxLost == 2

\* the cells of the heap: room for the MaxNodes nodes of the lists and, during a
\* call, for the nodes of a clone the call makes and lets go
HeapCells == 2 * MaxNodes

NodeIds == 1..HeapCells
Handles == 1..MaxHandles
Values == 0..(NumValues - 1)
Indices == (-1)..MaxSize

\* the value a handle dereferences to: several handles share one value
Value(h) == h % NumValues

VARIABLES impl, build, l1, l2, old1, old2, r1, r2, call, k1, k2, stored, lost

vars == <<impl, build, l1, l2, old1, old2, r1, r2, call, k1, k2, stored, lost>>

\* ------------------------------------------------------- results and heap
IndexOutOfBounds == "IndexOutOfBounds"
OperationOnEmptyList == "OperationOnEmptyList"
UnexpectedError == "UnexpectedError"
ElementNotFound == "ElementNotFound"
UNEXPECTED_ERR == UnexpectedError

ErrKinds == {IndexOutOfBounds, OperationOnEmptyList, UnexpectedError, ElementNotFound}

Ok(v) == [kind |-> "Ok", val |-> v]
Err(k) == [kind |-> k, val |-> 0]
Bool(b) == [kind |-> "Bool", val |-> IF b THEN 1 ELSE 0]
Panic == [kind |-> "Panic", val |-> 0]
NoResult == [kind |-> "None", val |-> 0]

Ret(l, r) == [l |-> l, r |-> r]

NullNode == [content |-> 0, next |-> 0, prev |-> 0]

\* LinkedList::new / LinkedList2::new
NewList == [head |-> 0, tail |-> 0, size |-> 0, nodes |-> [n \in NodeIds |-> NullNode]]

\* the list set aside: none held, the head, tail and size of a list, and the list
\* a held one makes with the heap its nodes are in
NoClone == [held |-> FALSE, head |-> 0, tail |-> 0, size |-> 0, calls |-> 0]
View(l) == [held |-> TRUE, head |-> l.head, tail |-> l.tail, size |-> l.size, calls |-> 0]
ListOf(k, nodes) == [head |-> k.head, tail |-> k.tail, size |-> k.size, nodes |-> nodes]

SetNext(nodes, n, v) == [nodes EXCEPT ![n].next = v]
SetPrev(nodes, n, v) == [nodes EXCEPT ![n].prev = v]

\* nodes the head or tail of a list reaches along the links
RECURSIVE Closure(_, _, _)
Closure(nodes, S, k) ==
  LET more == S \cup (({nodes[n].next : n \in S} \cup {nodes[n].prev : n \in S}) \ {0}) IN
  IF k = 0 \/ more = S THEN S ELSE Closure(nodes, more, k - 1)

Owned(l, c) == Closure(l.nodes, {l.head, l.tail, c.head, c.tail} \ {0}, HeapCells)

\* Rc counts: a node stays allocated while the head or tail of a list, or a link
\* of a node that is itself allocated, refers to it.  Nodes that refer to each
\* other (a.next = b and b.prev = a) keep each other allocated once no list
\* reaches them.
Roots(l, c) == {l.head, l.tail, c.head, c.tail} \ {0}

Referred(nodes, live) == ({nodes[m].next : m \in live} \cup {nodes[m].prev : m \in live}) \ {0}

RECURSIVE Counted(_, _, _, _)
Counted(nodes, roots, live, k) ==
  LET held == live \cap (roots \cup Referred(nodes, live)) IN
  IF k = 0 \/ held = live THEN live ELSE Counted(nodes, roots, held, k - 1)

Allocated(l, c) ==
  Counted(l.nodes, Roots(l, c), {n \in NodeIds : l.nodes[n].content # 0}, HeapCells)

\* a node no Rc refers to any more is dropped, and with it the links it holds
Drop(l, c) ==
  LET live == Allocated(l, c) IN
  [l EXCEPT !.nodes = [n \in NodeIds |-> IF n \in live THEN l.nodes[n] ELSE NullNode]]

\* Nodes that stay allocated though no list reaches them, and that reach no node
\* of a list themselves: no call reads or writes them again.  The model keeps
\* of them how many hold each content handle (variable lost) and gives their
\* cells back.
Inert(l, c) ==
  LET own == Owned(l, c)
      stray == {n \in NodeIds \ own : l.nodes[n].content # 0} IN
  {n \in stray : Closure(l.nodes, {n}, HeapCells) \cap own = {}}

Forget(l, gone) ==
  IF gone = {} THEN l
  ELSE [l EXCEPT !.nodes = [n \in NodeIds |-> IF n \in gone THEN NullNode ELSE l.nodes[n]]]

Holding(l, S) == [h \in Handles |-> Cardinality({n \in S : l.nodes[n].content = h})]

NoneLost == [h \in Handles |-> 0]

RECURSIVE Total(_, _)
Total(count, h) == IF h = 0 THEN 0 ELSE count[h] + Total(count, h - 1)

\* A node's address is arbitrary: the model names the owned nodes 1, 2, ... in the
\* order in which head, tail, the head and tail of the list set aside and then
\* their links (forward, then backward) reach them
AddNew(seq, n) == IF n = 0 \/ (\E k \in 1..Len(seq) : seq[k] = n) THEN seq ELSE Append(seq, n)

RECURSIVE Reached(_, _, _)
Reached(nodes, seq, i) ==
  IF i > Len(seq) THEN seq
  ELSE Reached(nodes, AddNew(AddNew(seq, nodes[seq[i]].next), nodes[seq[i]].prev), i + 1)

Order(l, c) ==
  Reached(l.nodes, AddNew(AddNew(AddNew(AddNew(<<>>, l.head), l.tail), c.head), c.tail), 1)

\* the renaming: old name -> new name (behind the owned nodes come the nodes no
\* list reaches, in their order, and then the free cells)
Naming(l, c) ==
  LET ord == Order(l, c)
      owned == {ord[k] : k \in 1..Len(ord)}
      stray == {n \in NodeIds \ owned : l.nodes[n].content # 0}
      free == NodeIds \ (owned \cup stray) IN
  [n \in NodeIds |->
     IF n \in owned THEN CHOOSE k \in 1..Len(ord) : ord[k] = n
     ELSE IF n \in stray THEN Len(ord) + Cardinality({m \in stray : m <= n})
     ELSE Len(ord) + Cardinality(stray) + Cardinality({m \in free : m <= n})]

Named(p, n) == IF n = 0 THEN 0 ELSE p[n]

Rename(l, p) ==
  IF \A n \in NodeIds : p[n] = n THEN l
  ELSE
  [head |-> Named(p, l.head), tail |-> Named(p, l.tail), size |-> l.size,
   nodes |-> [n \in NodeIds |->
                LET m == CHOOSE m \in NodeIds : p[m] = n IN
                [content |-> l.nodes[m].content,
                 next |-> Named(p, l.nodes[m].next),
                 prev |-> Named(p, l.nodes[m].prev)]]]

RenameView(k, p) == [k EXCEPT !.head = Named(p, k.head), !.tail = Named(p, k.tail)]

FreeIds(l) == {n \in NodeIds : l.nodes[n].content = 0}

\* Rc::new(RefCell::new(ListNode {..})): the allocation takes the first free cell
NewId(l) == CHOOSE n \in FreeIds(l) : \A m \in FreeIds(l) : n <= m

\* the chain of nodes from a node along the forward links, at most fuel long
RECURSIVE Chain(_, _, _)
Chain(nodes, cur, fuel) ==
  IF cur = 0 \/ fuel = 0 THEN <<>>
  ELSE <<cur>> \o Chain(nodes, nodes[cur].next, fuel - 1)

NodePath(l) == Chain(l.nodes, l.head, MaxNodes + 1)

\* a forward chain longer than the heap revisits a node
Cyclic(l) == Len(NodePath(l)) > MaxNodes

\* ------------------------------------------------ LinkedList (singly linked)

\* a link_to that leaves the node's forward link as it is
link_to_nothing(nodes, self, node) == nodes

\* ListNode::link_to: the node's forward link becomes `node`
link_to(nodes, self, node) == SetNext(nodes, self, node)

\* an index check that lets index == size through (size < index for size <= index)
index_check_off_by_one(l, index) == index < 0 \/ l.size < index

\* LinkedList::index_check: TRUE when the index is refused
LinkedList_index_check(l, index) == index < 0 \/ l.size <= index

\* LinkedList::get_node_at: the node `index` links after head, or the error
RECURSIVE LinkedList_walk(_, _, _)
LinkedList_walk(l, cur, steps) ==
  IF steps = 0 THEN (IF cur = 0 THEN Err(UNEXPECTED_ERR) ELSE Ok(cur))
  ELSE IF cur = 0 THEN Err(UNEXPECTED_ERR)
  ELSE IF l.nodes[cur].next = 0 THEN Err(UNEXPECTED_ERR)
  ELSE LinkedList_walk(l, l.nodes[cur].next, steps - 1)

\* a get_node_at that walks one link too far
get_node_at_one_further(l, index) ==
  IF LinkedList_index_check(l, index) THEN Err(IndexOutOfBounds)
  ELSE LinkedList_walk(l, l.head, index + 1)

LinkedList_get_node_at(l, index) ==
  IF LinkedList_index_check(l, index) THEN Err(IndexOutOfBounds)
  ELSE LinkedList_walk(l, l.head, index)

\* LinkedList::clone followed by into_iter and repeated next: the content handles
\* met from head along the forward links
IterSeq(l) == LET path == NodePath(l) IN [k \in 1..Len(path) |-> l.nodes[path[k]].content]

\* LinkedList::shift
LinkedList_shift(l) ==
  IF l.head = 0 THEN Ret(l, Err(OperationOnEmptyList))
  ELSE LET n == l.nodes[l.head].next IN
    IF n # 0
    THEN Ret([l EXCEPT !.size = l.size - 1, !.head = n], Ok(l.nodes[l.head].content))
    ELSE LET lt == [l EXCEPT !.size = l.size - 1, !.head = 0] IN
      IF l.tail = 0 THEN Ret(lt, Err(UNEXPECTED_ERR))
      ELSE Ret([lt EXCEPT !.tail = 0], Ok(l.nodes[l.tail].content))

\* LinkedList::pop
LinkedList_pop(l) ==
  IF l.size = 1
  THEN LET lt == [l EXCEPT !.size = l.size - 1, !.head = 0] IN
    IF l.tail = 0 THEN Ret(lt, Err(UNEXPECTED_ERR))
    ELSE Ret([lt EXCEPT !.tail = 0], Ok(l.nodes[l.tail].content))
  ELSE LET g == LinkedList_get_node_at(l, l.size - 2) IN
    IF g.kind # "Ok" THEN Ret(l, g)
    ELSE LET n == g.val
             lt == [l EXCEPT !.tail = n]
             last == l.nodes[n].next IN
      IF last = 0 THEN Ret(lt, Err(UNEXPECTED_ERR))
      ELSE Ret([lt EXCEPT !.nodes = SetNext(l.nodes, n, 0), !.size = l.size - 1],
               Ok(l.nodes[last].content))

\* LinkedList::add
LinkedList_add(l, item) ==
  LET node == NewId(l)
      fresh == [l.nodes EXCEPT ![node] = [content |-> item, next |-> 0, prev |-> 0]] IN
  IF l.tail # 0
  THEN Ret([l EXCEPT !.nodes = link_to(fresh, l.tail, node), !.tail = node,
                     !.size = l.size + 1], Ok(0))
  ELSE Ret([l EXCEPT !.nodes = fresh, !.tail = node, !.head = node,
                     !.size = l.size + 1], Ok(0))

\* LinkedList::clone: a new list to which the content of every node from head on
\* is added; the result is the clone together with the heap it was built in
RECURSIVE LinkedList_clone_loop(_, _)
LinkedList_clone_loop(clone, cur) ==
  IF cur = 0 THEN clone
  ELSE LinkedList_clone_loop(LinkedList_add(clone, clone.nodes[cur].content).l,
                             clone.nodes[cur].next)

\* a clone that copies the fields, as #[derive(Clone)] would: Rc::clone of head
\* and tail, no new node
LinkedList_clone_derived(l) == l

LinkedList_clone(l) == LinkedList_clone_loop([NewList EXCEPT !.nodes = l.nodes], l.head)

\* LinkedList::insert_at
LinkedList_insert_at(l, item, index) ==
  IF LinkedList_index_check(l, index) THEN Ret(l, Err(IndexOutOfBounds))
  ELSE IF index = 0
  THEN LET node == NewId(l) IN
    Ret([l EXCEPT !.nodes[node] = [content |-> item, next |-> l.head, prev |-> 0],
                  !.head = node], Ok(0))
  ELSE IF index = l.size - 1 THEN LinkedList_add(l, item)
  ELSE LET g == LinkedList_get_node_at(l, index - 1) IN
    IF g.kind # "Ok" THEN Ret(l, g)
    ELSE LET prev == g.val
             n0 == l.nodes[prev].next
             node == NewId(l) IN
      IF n0 = 0 THEN Ret(l, Err(UNEXPECTED_ERR))
      ELSE Ret([l EXCEPT !.nodes = link_to([l.nodes EXCEPT ![node] =
                                   [content |-> item, next |-> n0, prev |-> 0]], prev, node)],
               Ok(0))

\* LinkedList::get
LinkedList_get(l, index) ==
  LET iter == IterSeq(l) IN
  IF LinkedList_index_check(l, index) THEN Err(IndexOutOfBounds)
  ELSE IF index + 1 <= Len(iter) THEN Ok(iter[index + 1])
  ELSE Err(UNEXPECTED_ERR)

\* LinkedList::contains
LinkedList_contains(l, item) == LET iter == IterSeq(l) IN \E k \in 1..Len(iter) : iter[k] = item

\* LinkedList::is_empty
LinkedList_is_empty(l) == l.size < 1

\* LinkedList::remove, the loop looking for the node before the one holding `item`
RECURSIVE LinkedList_find_prev(_, _, _, _)
LinkedList_find_prev(l, cur, item, fuel) ==
  IF fuel = 0 THEN Err("Diverges")
  ELSE IF cur = 0 THEN Err(UNEXPECTED_ERR)
  ELSE IF l.nodes[cur].next = 0 THEN Err(UNEXPECTED_ERR)
  ELSE IF l.nodes[l.nodes[cur].next].content = item THEN Ok(cur)
  ELSE LinkedList_find_prev(l, l.nodes[cur].next, item, fuel - 1)

\* LinkedList::remove
LinkedList_remove(l, item) ==
  IF LinkedList_is_empty(l) THEN Ret(l, Err(UNEXPECTED_ERR))
  ELSE IF l.head = 0 THEN Ret(l, Err(UNEXPECTED_ERR))
  ELSE IF l.nodes[l.head].content = item
  THEN Ret([l EXCEPT !.head = l.nodes[l.head].next, !.size = l.size - 1], Ok(0))
  ELSE LET f == LinkedList_find_prev(l, l.head, item, MaxNodes + 1) IN
    IF f.kind # "Ok" THEN Ret(l, f)
    ELSE LET prev_node == f.val
             target_node == l.nodes[prev_node].next IN
      IF l.tail = 0 THEN Ret(l, Err(UNEXPECTED_ERR))
      ELSE IF target_node = l.tail
      THEN Ret([l EXCEPT !.tail = prev_node, !.size = l.size - 1], Ok(0))
      ELSE IF l.nodes[target_node].next = 0 THEN Ret(l, Err(UNEXPECTED_ERR))
      ELSE Ret([l EXCEPT !.nodes = SetNext(l.nodes, prev_node, l.nodes[target_node].next),
                         !.size = l.size - 1], Ok(0))

\* LinkedList::remove_at
LinkedList_remove_at(l, index) ==
  IF LinkedList_index_check(l, index) THEN Ret(l, Err(IndexOutOfBounds))
  ELSE IF index = 0 THEN LinkedList_shift(l)
  ELSE IF index = l.size - 1 THEN LinkedList_pop(l)
  ELSE LET g == LinkedList_get_node_at(l, index - 1)
           t == LinkedList_get_node_at(l, index) IN
    IF g.kind # "Ok" THEN Ret(l, g)
    ELSE IF t.kind # "Ok" THEN Ret(l, t)
    ELSE LET n == g.val
             n_after == l.nodes[t.val].next
             ls == [l EXCEPT !.size = l.size - 1] IN
      IF l.nodes[n].next = 0 THEN Ret(ls, Err(UNEXPECTED_ERR))
      ELSE IF n_after # 0
      THEN Ret([ls EXCEPT !.nodes = SetNext(l.nodes, n, n_after)],
               Ok(l.nodes[l.nodes[n].next].content))
      ELSE Ret(ls, Ok(l.nodes[l.nodes[n].next].content))

\* ----------------------------------------------- LinkedList2 (doubly linked)
\* size is a usize: the model keeps it as an integer s standing for s mod 2^64, so
\* that a wrapped 0 - 1 is -1 (which is 2^64 - 1, above every index)

\* `self.size -= 1` overflows when size is 0: a panic with overflow checks
\* (debug builds), a wrap without them (release builds)
SizeDecPanics(l) == l.size = 0 /\ build = "debug"

\* an index check that lets index == size through (size < index for size <= index)
index_check2_off_by_one(l, index) == l.size >= 0 /\ l.size < index

\* LinkedList2::index_check: TRUE when the index is refused (size <= index as usize)
LinkedList2_index_check(l, index) == l.size >= 0 /\ l.size <= index

\* LinkedList2::is_empty (size < 1 as usize)
LinkedList2_is_empty(l) == l.size = 0

\* ListNode2::break_link0 on node `self`; borrow_mut of a node already mutably
\* borrowed panics
break_link0(nodes, self) ==
  LET n0 == nodes[self].prev
      taken == SetPrev(nodes, self, 0) IN
  IF n0 = 0 THEN [nodes |-> taken, ret |-> 0, panic |-> FALSE]
  ELSE IF n0 = self THEN [nodes |-> taken, ret |-> 0, panic |-> TRUE]
  ELSE [nodes |-> SetNext(taken, n0, 0), ret |-> n0, panic |-> FALSE]

\* ListNode2::break_link1 on node `self`
break_link1(nodes, self) ==
  LET n1 == nodes[self].next
      taken == SetNext(nodes, self, 0) IN
  IF n1 = 0 THEN [nodes |-> taken, ret |-> 0, panic |-> FALSE]
  ELSE IF n1 = self THEN [nodes |-> taken, ret |-> 0, panic |-> TRUE]
  ELSE [nodes |-> SetPrev(taken, n1, 0), ret |-> n1, panic |-> FALSE]

\* a link_nodes that writes node1's forward link (linked_nodes.1) where its
\* backward link (linked_nodes.0) is meant
link_nodes_wrong_side(nodes, node0, node1) ==
  LET b1 == break_link1(nodes, node0) IN
  IF b1.panic THEN b1
  ELSE LET b0 == break_link0(b1.nodes, node1) IN
    IF b0.panic THEN b0
    ELSE [nodes |-> SetNext(SetNext(b0.nodes, node0, node1), node1, node0),
          ret |-> 0, panic |-> FALSE]

\* LinkedList2::link_nodes
link_nodes(nodes, node0, node1) ==
  LET b1 == break_link1(nodes, node0) IN
  IF b1.panic THEN b1
  ELSE LET b0 == break_link0(b1.nodes, node1) IN
    IF b0.panic THEN b0
    ELSE [nodes |-> SetPrev(SetNext(b0.nodes, node0, node1), node1, node0),
          ret |-> 0, panic |-> FALSE]

\* LinkedList2::get_node_at
RECURSIVE LinkedList2_walk(_, _, _)
LinkedList2_walk(l, cur, steps) ==
  IF steps = 0 THEN (IF cur = 0 THEN Err(UNEXPECTED_ERR) ELSE Ok(cur))
  ELSE IF cur = 0 THEN Err(UNEXPECTED_ERR)
  ELSE IF l.nodes[cur].next = 0 THEN Err(UNEXPECTED_ERR)
  ELSE LinkedList2_walk(l, l.nodes[cur].next, steps - 1)

LinkedList2_get_node_at(l, index) ==
  IF LinkedList2_index_check(l, index) THEN Err(IndexOutOfBounds)
  ELSE LinkedList2_walk(l, l.head, index)

\* LinkedList2::shift
LinkedList2_shift(l) ==
  IF l.head = 0 THEN Ret(l, Err(OperationOnEmptyList))
  ELSE LET n == l.nodes[l.head].next IN
    IF SizeDecPanics(l) THEN Ret(l, Panic)
    ELSE IF n # 0
    THEN LET b == break_link0(l.nodes, n)
             ln == [l EXCEPT !.size = l.size - 1, !.head = n, !.nodes = b.nodes] IN
      IF b.panic THEN Ret(ln, Panic) ELSE Ret(ln, Ok(l.nodes[l.head].content))
    ELSE LET lt == [l EXCEPT !.size = l.size - 1, !.head = 0] IN
      IF l.tail = 0 THEN Ret(lt, Err(UNEXPECTED_ERR))
      ELSE Ret([lt EXCEPT !.tail = 0], Ok(l.nodes[l.tail].content))

\* LinkedList2::pop
LinkedList2_pop(l) ==
  IF l.tail = 0 THEN Ret(l, Err(OperationOnEmptyList))
  ELSE LET n == l.nodes[l.tail].prev IN
    IF SizeDecPanics(l) THEN Ret(l, Panic)
    ELSE IF n # 0
    THEN LET b == break_link1(l.nodes, n)
             ln == [l EXCEPT !.size = l.size - 1, !.tail = n, !.nodes = b.nodes] IN
      IF b.panic THEN Ret(ln, Panic) ELSE Ret(ln, Ok(l.nodes[l.tail].content))
    ELSE Ret([l EXCEPT !.size = l.size - 1, !.head = 0, !.tail = 0],
             Ok(l.nodes[l.tail].content))

\* LinkedList2::add
LinkedList2_add(l, item) ==
  LET node == NewId(l)
      fresh == [l.nodes EXCEPT ![node] = [content |-> item, next |-> 0, prev |-> 0]] IN
  IF l.tail # 0
  THEN LET k == link_nodes(fresh, l.tail, node) IN
    IF k.panic THEN Ret([l EXCEPT !.nodes = k.nodes], Panic)
    ELSE Ret([l EXCEPT !.nodes = k.nodes, !.tail = node, !.size = l.size + 1], Ok(0))
  ELSE Ret([l EXCEPT !.nodes = fresh, !.tail = node, !.head = node,
                     !.size = l.size + 1], Ok(0))

\* LinkedList2::clone
RECURSIVE LinkedList2_clone_loop(_, _)
LinkedList2_clone_loop(clone, cur) ==
  IF cur = 0 THEN clone
  ELSE LinkedList2_clone_loop(LinkedList2_add(clone, clone.nodes[cur].content).l,
                              clone.nodes[cur].next)

LinkedList2_clone(l) == LinkedList2_clone_loop([NewList EXCEPT !.nodes = l.nodes], l.head)

\* LinkedList2::insert_at
LinkedList2_insert_at(l, item, index) ==
  IF LinkedList2_index_check(l, index) THEN Ret(l, Err(IndexOutOfBounds))
  ELSE IF index = 0
  THEN LET node == NewId(l) IN
    Ret([l EXCEPT !.nodes[node] = [content |-> item, next |-> l.head, prev |-> 0],
                  !.head = node, !.size = l.size + 1], Ok(0))
  ELSE IF index = l.size - 1 THEN LinkedList2_add(l, item)
  ELSE LET g == LinkedList2_get_node_at(l, index) IN
    IF g.kind # "Ok" THEN Ret(l, g)
    ELSE LET orig == g.val
             b == break_link0(l.nodes, orig)
             node == NewId(l) IN
      IF b.panic THEN Ret([l EXCEPT !.nodes = b.nodes], Panic)
      ELSE IF b.ret = 0 THEN Ret([l EXCEPT !.nodes = b.nodes], Err(UNEXPECTED_ERR))
      ELSE LET k == link_nodes([b.nodes EXCEPT ![node] =
                               [content |-> item, next |-> orig, prev |-> 0]], b.ret, node) IN
        IF k.panic THEN Ret([l EXCEPT !.nodes = k.nodes], Panic)
        ELSE Ret([l EXCEPT !.nodes = k.nodes, !.size = l.size + 1], Ok(0))

\* LinkedList2::get
\* get and contains walk a clone of the list; the heap they leave holds the
\* nodes of the clone, to which no list refers any more
LinkedList2_get(l, index) ==
  IF LinkedList2_index_check(l, index) THEN Ret(l, Err(IndexOutOfBounds))
  ELSE LET clone == LinkedList2_clone(l)
           iter == IterSeq(clone)
           after == [l EXCEPT !.nodes = clone.nodes] IN
    IF index + 1 <= Len(iter) THEN Ret(after, Ok(iter[index + 1]))
    ELSE Ret(after, Err(UNEXPECTED_ERR))

\* LinkedList2::contains
LinkedList2_contains(l, item) ==
  LET clone == LinkedList2_clone(l)
      iter == IterSeq(clone) IN
  Ret([l EXCEPT !.nodes = clone.nodes], Bool(\E k \in 1..Len(iter) : iter[k] = item))

\* LinkedList2::remove, the loop looking for the node holding `item`
RECURSIVE LinkedList2_find(_, _, _, _)
LinkedList2_find(l, cur, item, fuel) ==
  IF fuel = 0 THEN Err("Diverges")
  ELSE IF l.nodes[cur].content = item THEN Ok(cur)
  ELSE IF l.nodes[cur].next = 0 THEN Err(ElementNotFound)
  ELSE LinkedList2_find(l, l.nodes[cur].next, item, fuel - 1)

\* LinkedList2::remove
LinkedList2_remove(l, item) ==
  IF LinkedList2_is_empty(l) THEN Ret(l, Err(UNEXPECTED_ERR))
  ELSE IF l.head = 0 THEN Ret(l, Err(UNEXPECTED_ERR))
  ELSE IF l.nodes[l.head].content = item
  THEN LET s == LinkedList2_shift(l) IN
    IF s.r.kind = "Panic" \/ SizeDecPanics(s.l) THEN Ret(s.l, Panic)
    ELSE Ret([s.l EXCEPT !.size = s.l.size - 1], Ok(0))
  ELSE IF l.nodes[l.head].next = 0 THEN Ret(l, Err(UNEXPECTED_ERR))
  ELSE LET f == LinkedList2_find(l, l.nodes[l.head].next, item, MaxNodes + 1) IN
    IF f.kind # "Ok" THEN Ret(l, f)
    ELSE LET target_node == f.val
             n0 == l.nodes[target_node].prev
             n1 == l.nodes[target_node].next IN
      IF l.tail = 0 THEN Ret(l, Err(UNEXPECTED_ERR))
      ELSE IF l.tail = target_node
      THEN IF n0 = 0 THEN Ret(l, Err(UNEXPECTED_ERR))
           ELSE LET b == break_link1(l.nodes, l.tail)
                    lt == [l EXCEPT !.tail = n0, !.nodes = b.nodes] IN
             IF b.panic \/ SizeDecPanics(lt) THEN Ret(lt, Panic)
             ELSE Ret([lt EXCEPT !.size = l.size - 1], Ok(0))
      ELSE IF n0 = 0 \/ n1 = 0 THEN Ret(l, Err(UNEXPECTED_ERR))
      ELSE LET k == link_nodes(l.nodes, n0, n1)
               lk == [l EXCEPT !.nodes = k.nodes] IN
        IF k.panic \/ SizeDecPanics(lk) THEN Ret(lk, Panic)
        ELSE Ret([lk EXCEPT !.size = l.size - 1], Ok(0))

\* LinkedList2::remove_at
LinkedList2_remove_at(l, index) ==
  IF LinkedList2_index_check(l, index) THEN Ret(l, Err(IndexOutOfBounds))
  ELSE IF index = 0 THEN LinkedList2_shift(l)
  ELSE IF index = l.size - 1 THEN LinkedList2_pop(l)
  ELSE LET g == LinkedList2_get_node_at(l, index) IN
    IF g.kind # "Ok" THEN Ret(l, g)
    ELSE LET n == g.val
             n0 == l.nodes[n].prev
             n1 == l.nodes[n].next IN
      IF n0 = 0 \/ n1 = 0 THEN Ret(l, Err(UNEXPECTED_ERR))
      ELSE LET k == link_nodes(l.nodes, n0, n1)
               lk == [l EXCEPT !.nodes = k.nodes] IN
        IF k.panic \/ SizeDecPanics(lk) THEN Ret(lk, Panic)
        ELSE Ret([lk EXCEPT !.size = l.size - 1], Ok(l.nodes[n].content))

\* ------------------------------------------------------------ the program
\* A caller holds one List value, a LinkedList or a LinkedList2, and calls the
\* operations of the List trait (and shift, pop) on it in any order.  call is the
\* last call made, r1/r2 what it returned, old1/old2 the list before it.
\* The caller may clone the list, and then calls either list: k1/k2 is the one
\* of the two it is not calling.  With impl = "both" the caller makes every call
\* on a LinkedList and a LinkedList2 alike, as long as the two agree.  stored,
\* when it is on, counts for every handle how often the caller put it in less
\* how often it took it out.  lost counts, for every handle, the nodes holding it
\* that stay allocated though no list reaches them (LinkedList2 nodes hold each
\* other through their forward and backward Rc's).

Runs1 == impl \in {"singly", "both"}
Runs2 == impl \in {"doubly", "both"}

\* a panic ends the program
Alive == (Runs1 => r1.kind # "Panic") /\ (Runs2 => r2.kind # "Panic")

\* the model's heap and counters are bounded: the lists have MaxNodes nodes at most
Room(l) == Cardinality(NodeIds \ FreeIds(l)) < MaxNodes /\ l.size < MaxSize
StoredRoom == stored.on => \A h \in Handles : stored.count[h] < MaxSize
HasRoom == (Runs1 => Room(l1)) /\ (Runs2 => Room(l2)) /\ StoredRoom

\* without overflow checks a usize size that wrapped below 0 can sink further with
\* every removal: the model follows it MaxWrap deep
Afloat == Runs2 => l2.size > 0 - MaxWrap

\* usize indices cannot be negative
Representable(index) == Runs2 => index >= 0

Call(op, item, index) == [op |-> op, item |-> item, index |-> index]

Count(seq, h) == Cardinality({k \in 1..Len(seq) : seq[k] = h})

\* the caller that drives both lists stops at the first difference it sees, and
\* the caller that keeps count stops once the iteration of the list no longer
\* yields what it counted
InStep ==
  /\ impl = "both" =>
       /\ r1 = r2 \/ (call.op = "pop" /\ r1.kind \in ErrKinds /\ r2.kind \in ErrKinds)
       /\ IterSeq(l1) = IterSeq(l2)
       /\ l1.size = l2.size
  /\ stored.on => \A h \in Handles :
       /\ Runs1 => Count(IterSeq(l1), h) = stored.count[h]
       /\ Runs2 => Count(IterSeq(l2), h) = stored.count[h]

NotStored == [on |-> FALSE, count |-> [h \in Handles |-> 0]]

Less(count, h) == IF h \in Handles /\ count[h] > 0 THEN [count EXCEPT ![h] = @ - 1] ELSE count

\* the count after call c returned r
Record(c, r) ==
  IF ~stored.on \/ r.kind # "Ok" THEN stored
  ELSE IF c.op \in {"add", "add_raw", "insert_at", "insert_raw_at"}
  THEN [stored EXCEPT !.count[c.item] = @ + 1]
  ELSE IF c.op = "remove" THEN [stored EXCEPT !.count = Less(@, c.item)]
  ELSE IF c.op \in {"remove_at", "shift", "pop"} THEN [stored EXCEPT !.count = Less(@, r.val)]
  ELSE stored

\* one more call made while a list is set aside; the model follows the caller
\* MaxAfterClone calls beyond every clone
Called(k) == IF k.held THEN [k EXCEPT !.calls = @ + 1] ELSE k
Within(c) == c.op # "clone" => (k1.calls < MaxAfterClone /\ k2.calls < MaxAfterClone)

\* the heap a call leaves, settled: the nodes no Rc refers to dropped, the inert
\* ones counted and their cells given back, the others renamed (p)
Settle(l, c) ==
  LET d == Drop(l, c)
      gone == Inert(d, c)
      f == Forget(d, gone)
      p == Naming(f, c) IN
  [l |-> Rename(f, p), p |-> p, lost |-> Holding(d, gone)]

\* call c leaves list, result a1 / a2 and c1 / c2 as the list set aside; the model
\* follows the caller until MaxLost nodes are lost
Step(c, a1, a2, c1, c2) ==
  /\ InStep /\ Within(c) /\ Total(lost, MaxHandles) < MaxLost
  /\ call' = c
  /\ UNCHANGED <<impl, build>>
  /\ LET s1 == Settle(a1.l, c1)
         s2 == Settle(a2.l, c2)
         g1 == IF Runs1 THEN s1.lost ELSE NoneLost
         g2 == IF Runs2 THEN s2.lost ELSE NoneLost
         now == [h \in Handles |-> lost[h] + g1[h] + g2[h]] IN
     /\ lost' = now
     /\ IF Runs1
        THEN /\ l1' = s1.l /\ r1' = a1.r /\ old1' = Rename(l1, s1.p)
             /\ k1' = RenameView(c1, s1.p)
        ELSE UNCHANGED <<l1, r1, old1, k1>>
     /\ IF Runs2
        THEN /\ l2' = s2.l /\ r2' = a2.r /\ old2' = Rename(l2, s2.p)
             /\ k2' = RenameView(c2, s2.p)
        ELSE UNCHANGED <<l2, r2, old2, k2>>
  /\ stored' = Record(c, IF Runs1 THEN a1.r ELSE a2.r)

Do(c, a1, a2) == Step(c, a1, a2, Called(k1), Called(k2))

\* handles no node of the list holds: what Rc::new(RefCell::new(item)) can return
FreshHandles ==
  {h \in Handles : /\ \A n \in NodeIds : l1.nodes[n].content # h /\ l2.nodes[n].content # h
                   /\ lost[h] = 0}

Init ==
  /\ impl \in {"singly", "doubly"}
  /\ build \in {"debug", "release"}
  /\ impl = "singly" => build = "release"
  /\ l1 = NewList /\ l2 = NewList
  /\ old1 = NewList /\ old2 = NewList
  /\ r1 = NoResult /\ r2 = NoResult
  /\ call = Call("new", 0, 0)
  /\ k1 = NoClone /\ k2 = NoClone
  /\ stored = NotStored
  /\ lost = NoneLost

Add(item) ==
  /\ Alive /\ HasRoom
  /\ Do(Call("add", item, 0), LinkedList_add(l1, item), LinkedList2_add(l2, item))

AddRaw(v) ==
  /\ Alive /\ HasRoom
  /\ \E item \in FreshHandles :
       /\ Value(item) = v
       /\ Do(Call("add_raw", item, 0), LinkedList_add(l1, item), LinkedList2_add(l2, item))

InsertAt(item, index) ==
  /\ Alive /\ HasRoom /\ Representable(index)
  /\ Do(Call("insert_at", item, index),
        LinkedList_insert_at(l1, item, index), LinkedList2_insert_at(l2, item, index))

InsertRawAt(v, index) ==
  /\ Alive /\ HasRoom /\ Representable(index)
  /\ \E item \in FreshHandles :
       /\ Value(item) = v
       /\ Do(Call("insert_raw_at", item, index),
             LinkedList_insert_at(l1, item, index), LinkedList2_insert_at(l2, item, index))

Get(index) ==
  /\ Alive /\ Representable(index)
  /\ Do(Call("get", 0, index),
        Ret(l1, LinkedList_get(l1, index)), LinkedList2_get(l2, index))

Remove(item) ==
  /\ Alive /\ Afloat
  /\ Do(Call("remove", item, 0), LinkedList_remove(l1, item), LinkedList2_remove(l2, item))

RemoveAt(index) ==
  /\ Alive /\ Afloat /\ Representable(index)
  /\ Do(Call("remove_at", 0, index),
        LinkedList_remove_at(l1, index), LinkedList2_remove_at(l2, index))

Contains(item) ==
  /\ Alive
  /\ Do(Call("contains", item, 0),
        Ret(l1, Bool(LinkedList_contains(l1, item))),
        LinkedList2_contains(l2, item))

IsEmpty ==
  /\ Alive
  /\ Do(Call("is_empty", 0, 0),
        Ret(l1, Bool(LinkedList_is_empty(l1))), Ret(l2, Bool(LinkedList2_is_empty(l2))))

Shift ==
  /\ Alive /\ Afloat
  /\ Do(Call("shift", 0, 0), LinkedList_shift(l1), LinkedList2_shift(l2))

Pop ==
  /\ Alive /\ Afloat
  /\ Do(Call("pop", 0, 0), LinkedList_pop(l1), LinkedList2_pop(l2))

Next ==
  \/ \E item \in Handles : Add(item)
  \/ \E v \in Values : AddRaw(v)
  \/ \E item \in Handles, index \in Indices : InsertAt(item, index)
  \/ \E v \in Values, index \in Indices : InsertRawAt(v, index)
  \/ \E index \in Indices : Get(index)
  \/ \E item \in Handles : Remove(item)
  \/ \E index \in Indices : RemoveAt(index)
  \/ \E item \in Handles : Contains(item)
  \/ IsEmpty
  \/ Shift
  \/ Pop

Spec == Init /\ [][Next]_vars

\* the same calls made on a LinkedList and a LinkedList2
InitBoth ==
  /\ impl = "both"
  /\ build \in {"debug", "release"}
  /\ l1 = NewList /\ l2 = NewList
  /\ old1 = NewList /\ old2 = NewList
  /\ r1 = NoResult /\ r2 = NoResult
  /\ call = Call("new", 0, 0)
  /\ k1 = NoClone /\ k2 = NoClone
  /\ stored = NotStored
  /\ lost = NoneLost

SpecBoth == InitBoth /\ [][Next]_vars

\* the calls made on one list, with the count of what was put in and taken out
InitStored ==
  /\ impl \in {"singly", "doubly"}
  /\ build \in {"debug", "release"}
  /\ impl = "singly" => build = "release"
  /\ l1 = NewList /\ l2 = NewList
  /\ old1 = NewList /\ old2 = NewList
  /\ r1 = NoResult /\ r2 = NoResult
  /\ call = Call("new", 0, 0)
  /\ k1 = NoClone /\ k2 = NoClone
  /\ stored = [NotStored EXCEPT !.on = TRUE]
  /\ lost = NoneLost

SpecStored == InitStored /\ [][Next]_vars

\* a list the caller changes by add, add_raw, shift, pop and remove_at alone
NextAppend ==
  \/ \E item \in Handles : Add(item)
  \/ \E v \in Values : AddRaw(v)
  \/ \E index \in Indices : RemoveAt(index)
  \/ Shift
  \/ Pop

SpecAppend == Init /\ [][NextAppend]_vars

\* the list and a clone of it have MaxNodes nodes at most
CloneRoom(l) == Cardinality(Owned(l, NoClone)) + Len(NodePath(l)) <= MaxNodes

\* let c = list.clone(): the clone is set aside (one held before is dropped)
Clone ==
  /\ Alive
  /\ Runs1 => CloneRoom(l1)
  /\ Runs2 => CloneRoom(l2)
  /\ LET c1 == LinkedList_clone(Drop(l1, NoClone))
         c2 == LinkedList2_clone(Drop(l2, NoClone)) IN
     Step(Call("clone", 0, 0),
          Ret([l1 EXCEPT !.nodes = c1.nodes], NoResult),
          Ret([l2 EXCEPT !.nodes = c2.nodes], NoResult),
          View(c1), View(c2))

\* the caller turns to the list set aside and sets aside the one it was calling
Turn ==
  /\ Alive
  /\ Runs1 => k1.held
  /\ Runs2 => k2.held
  /\ Step(Call("turn", 0, 0),
          Ret(ListOf(k1, l1.nodes), NoResult), Ret(ListOf(k2, l2.nodes), NoResult),
          [View(l1) EXCEPT !.calls = k1.calls], [View(l2) EXCEPT !.calls = k2.calls])

NextClone ==
  \/ Next
  \/ Clone
  \/ Turn

\* let list = new(); let c = list.clone(); and then the calls on either
InitClone ==
  /\ impl \in {"singly", "doubly"}
  /\ build \in {"debug", "release"}
  /\ impl = "singly" => build = "release"
  /\ l1 = NewList /\ l2 = NewList
  /\ old1 = NewList /\ old2 = NewList
  /\ r1 = NoResult /\ r2 = NoResult
  /\ call = Call("clone", 0, 0)
  /\ k1 = View(LinkedList_clone(NewList)) /\ k2 = View(LinkedList2_clone(NewList))
  /\ stored = NotStored
  /\ lost = NoneLost

SpecClone == InitClone /\ [][NextClone]_vars

\* ---------------------------------------------------------- the properties
Acyclic == ~Cyclic(l1) /\ ~Cyclic(l2)

Mutating == {"add", "add_raw", "insert_at", "insert_raw_at", "remove", "remove_at", "shift", "pop"}
Inserting == {"insert_at", "insert_raw_at"}

\* seq with x put before position i (0-based), and seq without position i
InsertSeq(seq, i, x) == SubSeq(seq, 1, i) \o <<x>> \o SubSeq(seq, i + 1, Len(seq))
DeleteSeq(seq, i) == SubSeq(seq, 1, i) \o SubSeq(seq, i + 2, Len(seq))
Positions(seq, x) == {k \in 1..Len(seq) : seq[k] = x}

\* the last node of the forward chain from head (0 when there is none)
LastNode(l) == LET path == NodePath(l) IN IF path = <<>> THEN 0 ELSE path[Len(path)]

\* C1: size equals the number of elements a full forward iteration from head yields,
\* in both lists, in every state
C1_SizeInvariant ==
  /\ r1.kind # "Panic" => l1.size = Len(IterSeq(l1))
  /\ r2.kind # "Panic" => l2.size = Len(IterSeq(l2))

\* C2: in the doubly linked list each node after head has the node before it as
\* its backward link, head has no backward link and tail no forward link
C2_SymmetricLinks ==
  (call.op \in Mutating /\ r2.kind = "Ok") =>
    LET path == NodePath(l2) IN
    /\ \A k \in 1..(Len(path) - 1) : l2.nodes[path[k + 1]].prev = path[k]
    /\ l2.head # 0 => l2.nodes[l2.head].prev = 0
    /\ l2.tail # 0 => l2.nodes[l2.tail].next = 0

\* C3: in a singly linked list with at least one element the forward chain from
\* head has size nodes and ends at tail, whose forward link is empty
C3_TailInvariant ==
  l1.size >= 1 =>
    /\ Len(NodePath(l1)) = l1.size
    /\ LastNode(l1) = l1.tail
    /\ l1.tail # 0 /\ l1.nodes[l1.tail].next = 0

IsEmptyState(l) == l.head = 0 /\ l.tail = 0 /\ l.size = 0
IsSingleton(l) == l.head # 0 /\ l.head = l.tail /\ l.size = 1
IsMulti(l) == l.head # 0 /\ l.tail # 0 /\ l.head # l.tail /\ l.size >= 2

\* C4: every state of either list is Empty, Singleton or Multi
C4_StructuralState ==
  /\ r1.kind # "Panic" => (IsEmptyState(l1) \/ IsSingleton(l1) \/ IsMulti(l1))
  /\ r2.kind # "Panic" => (IsEmptyState(l2) \/ IsSingleton(l2) \/ IsMulti(l2))

\* what the contract requires of insert_at(item, index) from list o to list l
InsertedAt(o, l, r, get) ==
  /\ r.kind = "Ok"
  /\ call.index <= Len(IterSeq(o))
  /\ IterSeq(l) = InsertSeq(IterSeq(o), call.index, call.item)
  /\ l.size = o.size + 1
  /\ get = Ok(call.item)

\* C5: insert_at with 0 <= index < size returns Ok, puts the handle at index, keeps
\* the other elements in order around it and grows size by one
C5_InsertAt ==
  call.op \in Inserting =>
    /\ (Runs1 /\ ~LinkedList_index_check(old1, call.index)) =>
         InsertedAt(old1, l1, r1, LinkedList_get(l1, call.index))
    /\ (Runs2 /\ ~LinkedList2_index_check(old2, call.index)) =>
         InsertedAt(old2, l2, r2, LinkedList2_get(l2, call.index).r)

\* what the contract requires of remove(item) from list o to list l
RemovedOne(o, l, r) ==
  /\ r.kind = "Ok"
  /\ \E k \in Positions(IterSeq(o), call.item) : IterSeq(l) = DeleteSeq(IterSeq(o), k - 1)
  /\ l.size = o.size - 1
  /\ Positions(IterSeq(l), call.item) = {}

\* C6: remove(h), h being the content of exactly one node, returns Ok, deletes
\* exactly that element, decreases size by one and leaves contains(h) false
C6_RemoveByIdentity ==
  call.op = "remove" =>
    /\ (Runs1 /\ Cardinality(Positions(IterSeq(old1), call.item)) = 1) => RemovedOne(old1, l1, r1)
    /\ (Runs2 /\ Cardinality(Positions(IterSeq(old2), call.item)) = 1) => RemovedOne(old2, l2, r2)

Absent(o, item) == \A n \in Owned(o, NoClone) : o.nodes[n].content # item

\* C7: remove(h) on a non-empty list no node of which holds h fails with
\* ElementNotFound and changes nothing
C7_RemoveAbsent ==
  call.op = "remove" =>
    /\ (Runs1 /\ ~LinkedList_is_empty(old1) /\ Absent(old1, call.item)) =>
         (r1 = Err(ElementNotFound) /\ l1 = old1)
    /\ (Runs2 /\ ~LinkedList2_is_empty(old2) /\ Absent(old2, call.item)) =>
         (r2 = Err(ElementNotFound) /\ l2 = old2)

Indexed == {"get", "remove_at", "insert_at", "insert_raw_at"}

\* C8: get, remove_at and insert_at with an index that is negative or not below
\* size fail with IndexOutOfBounds and leave head, tail, size and every link as
\* they were
C8_IndexErrors ==
  call.op \in Indexed =>
    /\ (Runs1 /\ (call.index < 0 \/ call.index >= old1.size)) =>
         (r1 = Err(IndexOutOfBounds) /\ l1 = old1)
    /\ (Runs2 /\ old2.size >= 0 /\ call.index >= old2.size) =>
         (r2 = Err(IndexOutOfBounds) /\ l2 = old2)

\* insert_at(item, size) was refused on a singly linked list of two or more nodes
C8_Witness ==
  /\ call.op = "insert_at" /\ Runs1
  /\ Len(NodePath(old1)) >= 2 /\ call.index = old1.size
  /\ r1 = Err(IndexOutOfBounds) /\ l1 = old1

\* C9: a call that returns an error leaves head, tail, size and every link as they
\* were before it
C9_NoPartialMutation ==
  /\ r1.kind \in ErrKinds => l1 = old1
  /\ r2.kind \in ErrKinds => l2 = old2

\* C10: shift returns OperationOnEmptyList exactly when size is 0, and then
\* changes nothing
C10_ShiftOnEmpty ==
  call.op = "shift" =>
    /\ Runs1 => ((r1 = Err(OperationOnEmptyList)) <=> (old1.size = 0))
    /\ Runs2 => ((r2 = Err(OperationOnEmptyList)) <=> (old2.size = 0))
    /\ (r1 = Err(OperationOnEmptyList)) => l1 = old1
    /\ (r2 = Err(OperationOnEmptyList)) => l2 = old2

\* C11: pop on an empty list fails with OperationOnEmptyList on the
\* doubly linked list and with UnexpectedError on the singly linked list, and
\* leaves the list as it was
C11_PopOnEmpty ==
  call.op = "pop" =>
    /\ (Runs1 /\ IsEmptyState(old1)) => (r1 = Err(UnexpectedError) /\ l1 = old1)
    /\ (Runs2 /\ IsEmptyState(old2)) => (r2 = Err(OperationOnEmptyList) /\ l2 = old2)

\* C12: remove(h) on a list of size 0 fails with OperationOnEmptyList and
\* changes nothing
C12_RemoveOnEmpty ==
  call.op = "remove" =>
    /\ (Runs1 /\ old1.size = 0) => (r1 = Err(OperationOnEmptyList) /\ l1 = old1)
    /\ (Runs2 /\ old2.size = 0) => (r2 = Err(OperationOnEmptyList) /\ l2 = old2)

Adding == {"add", "add_raw"}

\* what the contract requires of add(item) from list o to list l
Appended(o, l, r, get) ==
  /\ r = Ok(0)
  /\ IterSeq(l) = Append(IterSeq(o), call.item)
  /\ l.size = o.size + 1
  /\ l.size >= 1
  /\ get = Ok(call.item)

\* C13: add(h) never fails, makes the iteration sequence the previous one followed
\* by h, grows size by one, and get(size - 1) then returns h
C13_AddAppends ==
  call.op \in Adding =>
    /\ Runs1 => Appended(old1, l1, r1, LinkedList_get(l1, l1.size - 1))
    /\ Runs2 => Appended(old2, l2, r2, LinkedList2_get(l2, l2.size - 1).r)

\* what the contract requires of remove_at(index) from list o to list l, got being
\* what get(index) returned on o
RemovedAt(o, l, r, got) ==
  /\ got.kind = "Ok"
  /\ r = got
  /\ call.index < Len(IterSeq(o))
  /\ IterSeq(l) = DeleteSeq(IterSeq(o), call.index)
  /\ l.size = o.size - 1

\* C14: remove_at(index) with 0 <= index < size returns the handle get(index)
\* returned just before, deletes exactly the element at index and decreases size
\* by one
C14_RemoveAt ==
  call.op = "remove_at" =>
    /\ (Runs1 /\ ~LinkedList_index_check(old1, call.index)) =>
         RemovedAt(old1, l1, r1, LinkedList_get(old1, call.index))
    /\ (Runs2 /\ ~LinkedList2_index_check(old2, call.index)) =>
         RemovedAt(old2, l2, r2, LinkedList2_get(old2, call.index).r)

\* what the contract requires of shift and of pop from list o to list l
ShiftedOff(o, l, r) ==
  LET seq == IterSeq(o) IN
  /\ seq # <<>>
  /\ r = Ok(seq[1])
  /\ IterSeq(l) = Tail(seq)
  /\ l.size = o.size - 1

PoppedOff(o, l, r) ==
  LET seq == IterSeq(o) IN
  /\ seq # <<>>
  /\ r = Ok(seq[Len(seq)])
  /\ IterSeq(l) = SubSeq(seq, 1, Len(seq) - 1)
  /\ l.size = o.size - 1

\* C15: on a list that is not empty shift returns the first handle of the iteration
\* sequence and pop the last, each removes exactly that element and decreases size
\* by one
C15_ShiftPopResults ==
  /\ call.op = "shift" =>
       /\ (Runs1 /\ ~LinkedList_is_empty(old1)) => ShiftedOff(old1, l1, r1)
       /\ (Runs2 /\ ~LinkedList2_is_empty(old2)) => ShiftedOff(old2, l2, r2)
  /\ call.op = "pop" =>
       /\ (Runs1 /\ ~LinkedList_is_empty(old1)) => PoppedOff(old1, l1, r1)
       /\ (Runs2 /\ ~LinkedList2_is_empty(old2)) => PoppedOff(old2, l2, r2)

\* C19: get(i) with 0 <= i < size returns the handle met after i steps of forward
\* iteration from head
C19_OrderPreservation ==
  \A i \in 0..(MaxSize - 1) :
    /\ (Runs1 /\ r1.kind # "Panic" /\ ~LinkedList_index_check(l1, i)) =>
         (i < Len(IterSeq(l1)) /\ LinkedList_get(l1, i) = Ok(IterSeq(l1)[i + 1]))
    /\ (Runs2 /\ r2.kind # "Panic" /\ ~LinkedList2_index_check(l2, i)) =>
         (i < Len(IterSeq(l2)) /\ LinkedList2_get(l2, i).r = Ok(IterSeq(l2)[i + 1]))

SimplePath(l) ==
  LET path == NodePath(l) IN \A i, j \in 1..Len(path) : path[i] = path[j] => i = j

\* C20: the forward links from head form a simple path, no node twice, in both
\* lists and every state, and no loop that follows them runs on without end
C20_Acyclic ==
  /\ SimplePath(l1) /\ SimplePath(l2)
  /\ r1.kind # "Diverges" /\ r2.kind # "Diverges"

\* the search loop of remove went down a chain that fills the heap and came back
\* without having found the handle
C20_Witness ==
  /\ call.op = "remove" /\ Runs2
  /\ Len(NodePath(old2)) = MaxNodes
  /\ r2 = Err(ElementNotFound)

\* C16: contains(h) is true exactly when h was put in by add or insert_at and not
\* taken out since by remove, remove_at, shift or pop
C16_Membership ==
  stored.on => \A h \in Handles :
    /\ (Runs1 /\ r1.kind # "Panic") => (LinkedList_contains(l1, h) <=> stored.count[h] > 0)
    /\ (Runs2 /\ r2.kind # "Panic") => (LinkedList2_contains(l2, h).r = Bool(TRUE) <=> stored.count[h] > 0)

SameResult ==
  \/ r1 = r2
  \/ /\ call.op = "pop" /\ IsEmptyState(old1) /\ IsEmptyState(old2)
     /\ r1.kind \in ErrKinds /\ r2.kind \in ErrKinds

\* C17: the same calls made on a new LinkedList and a new LinkedList2 give the same
\* result, iteration sequence and size at every step, but for the error kind of
\* pop on an empty list
C17_Interchangeable ==
  impl = "both" =>
    /\ SameResult
    /\ IterSeq(l1) = IterSeq(l2)
    /\ l1.size = l2.size

\* the list set aside as it is in a heap: its head, tail and size and the nodes it owns
Aside(k, nodes) ==
  LET own == Owned(ListOf(k, nodes), NoClone) IN
  [head |-> k.head, tail |-> k.tail, size |-> k.size,
   nodes |-> [n \in NodeIds |-> IF n \in own THEN nodes[n] ELSE NullNode]]

\* what the contract requires of clone(): o the list before, l after, k the clone
CloneMade(o, l, k) ==
  /\ k.held
  /\ IterSeq(ListOf(k, l.nodes)) = IterSeq(o)
  /\ Owned(ListOf(k, l.nodes), NoClone) \cap Owned(l, NoClone) = {}
  /\ Aside(View(l), l.nodes) = Aside(View(o), o.nodes)

\* the list set aside is after the call what it was before
Untouched(o, l, k) == k.held => Aside(k, l.nodes) = Aside(k, o.nodes)

\* C18: clone() yields a list of new nodes whose iteration sequence is the
\* original's, and leaves the original as it was; a later add, insert_at, remove,
\* remove_at, shift or pop on either of the two leaves the other one's head, tail,
\* size, links and iteration sequence as they were
C18_CloneIndependent ==
  /\ (call.op = "clone" /\ Runs1) => CloneMade(old1, l1, k1)
  /\ (call.op = "clone" /\ Runs2) => CloneMade(old2, l2, k2)
  /\ (call.op \in Mutating /\ Runs1) => Untouched(old1, l1, k1)
  /\ (call.op \in Mutating /\ Runs2) => Untouched(old2, l2, k2)

\* a call changed one of a list and its clone, two nodes each before the call
C18_Witness ==
  /\ call.op \in Mutating /\ Runs2 /\ k2.held
  /\ r2.kind = "Ok"
  /\ Len(NodePath(old2)) = 2 /\ Len(NodePath(ListOf(k2, l2.nodes))) = 2
  /\ IterSeq(l2) # IterSeq(old2)
  /\ Untouched(old2, l2, k2)

\* C21: size of the singly linked list is never negative, and the doubly linked
\* list never executes size -= 1 with size 0: its size neither wraps around (a
\* negative s stands for a wrapped usize) nor does the overflow check panic (a
\* panic that leaves size 0)
C21_SizeNonNegative ==
  /\ Runs1 => l1.size >= 0
  /\ Runs2 => (l2.size >= 0 /\ ~(r2.kind = "Panic" /\ l2.size = 0))

\* the node a list of one element has for head and tail holds item
SingletonOf(l, item) == IsSingleton(l) /\ l.nodes[l.head].content = item

\* C22 as stated: insert_at(item, 0) on an empty list returns Ok and leaves the
\* Singleton state, head and tail the same new node holding item, size 1
C22_EmptyToSingleton ==
  (call.op \in Inserting /\ call.index = 0) =>
    /\ (Runs1 /\ IsEmptyState(old1)) => (r1 = Ok(0) /\ SingletonOf(l1, call.item))
    /\ (Runs2 /\ IsEmptyState(old2)) => (r2 = Ok(0) /\ SingletonOf(l2, call.item))

\* C22 amended: insert_at(item, 0) on an empty list fails with IndexOutOfBounds
\* and leaves the list empty; the first add is what produces the Singleton state
C22_EmptyStaysEmpty ==
  /\ (call.op \in Inserting /\ call.index = 0) =>
       /\ (Runs1 /\ IsEmptyState(old1)) => (r1 = Err(IndexOutOfBounds) /\ l1 = old1)
       /\ (Runs2 /\ IsEmptyState(old2)) => (r2 = Err(IndexOutOfBounds) /\ l2 = old2)
  /\ call.op \in Adding =>
       /\ (Runs1 /\ IsEmptyState(old1)) => (r1 = Ok(0) /\ SingletonOf(l1, call.item))
       /\ (Runs2 /\ IsEmptyState(old2)) => (r2 = Ok(0) /\ SingletonOf(l2, call.item))

\* insert_at(item, 0) was refused on an empty doubly linked list
C22_Witness ==
  /\ call.op = "insert_at" /\ call.index = 0 /\ Runs2
  /\ IsEmptyState(old2)
  /\ r2 = Err(IndexOutOfBounds) /\ l2 = old2

\* the node index - 1 links after head (0 when the chain is shorter)
Predecessor(o, index) ==
  LET path == NodePath(o) IN IF index <= Len(path) THEN path[index] ELSE 0

\* the nodes of o that are still nodes of l
Kept(o, l) == {n \in NodeIds : o.nodes[n].content # 0 /\ l.nodes[n].content # 0}

Interior(o, index) == 0 < index /\ index < o.size - 1

\* C23: insert_at and remove_at with 0 < index < size - 1 on the singly linked
\* list leave head, tail and the forward link of every node the list had before,
\* but the node at index - 1, as they were
C23_MinimalRewiring ==
  (Runs1 /\ call.op \in (Inserting \cup {"remove_at"}) /\ Interior(old1, call.index)) =>
    /\ l1.head = old1.head
    /\ l1.tail = old1.tail
    /\ \A n \in Kept(old1, l1) \ {Predecessor(old1, call.index)} :
         l1.nodes[n].next = old1.nodes[n].next

\* insert_at spliced a node into the interior of a singly linked list: the
\* forward link of the node at index - 1 is the new node
C23_Witness ==
  /\ Runs1 /\ call.op = "insert_at" /\ Interior(old1, call.index)
  /\ r1 = Ok(0)
  /\ Predecessor(old1, call.index) # 0
  /\ old1.nodes[l1.nodes[Predecessor(old1, call.index)].next].content = 0
  /\ l1.nodes[l1.nodes[Predecessor(old1, call.index)].next].content = call.item

WellFormed(l) ==
  LET path == NodePath(l) IN
  /\ l.size = Len(path)
  /\ l.tail = LastNode(l)
  /\ l.tail # 0 => l.nodes[l.tail].next = 0
  /\ (l.head = 0 /\ l.tail = 0) <=> (l.size = 0)

Symmetric(l) ==
  LET path == NodePath(l) IN
  /\ \A k \in 1..(Len(path) - 1) : l.nodes[path[k + 1]].prev = path[k]
  /\ l.head # 0 => l.nodes[l.head].prev = 0

\* C24: a list changed by add, add_raw, shift, pop and remove_at alone has size
\* equal to the number of nodes from head on, tail the last of them with an empty
\* forward link, head and tail empty exactly when size is 0, symmetric links when
\* doubly linked, and none of these calls returns UnexpectedError
C24_AppendSubsetWellFormed ==
  /\ Runs1 => (WellFormed(l1) /\ r1 # Err(UnexpectedError))
  /\ Runs2 => (WellFormed(l2) /\ Symmetric(l2) /\ r2 # Err(UnexpectedError) /\ r2.kind # "Panic")

\* remove_at took an element out of the interior of a full doubly linked list
C24_Witness ==
  /\ call.op = "remove_at" /\ Runs2
  /\ old2.size = MaxSize /\ Interior(old2, call.index)
  /\ r2.kind = "Ok" /\ l2.size = MaxSize - 1

====
